---- MODULE Spec2Model ----
(***************************************************************************)
(* Model of custom_components/instantpot_fresco/api.py:                    *)
(*   CognitoTokenManager  - credential set, login / refresh, asyncio.Lock  *)
(*   KitchenOSClient      - execute(): token-kind fallback and re-auth     *)
(*   NotificationsManager - websocket pump, reconnect loop, listeners      *)
(* Every coroutine is cut at its await points: one action is the code that *)
(* runs between two suspensions on the single event loop.                  *)
(***************************************************************************)
EXTENDS Integers, Sequences, FiniteSets, TLC

(* ------------------------------ bounds -------------------------------- *)
\* coroutines that call the token manager concurrently
NumProcs == 2
\* distinct token strings the identity provider may hand out
NumTokens == 2
\* the clock advances in steps of TickStep seconds up to MaxNow
TickStep == 30
MaxNow == 30
\* devices that report on the push channel, listener callbacks
NumDevices == 2
NumCbs == 2
\* live registrations of one callback for one device
MaxRegs == 2
\* consecutive failures of the reconnect loop are counted up to MaxFails
MaxFails == 7
SyncFails == 1
\* the failures in a row of one task in the text-frame runs
TextFails == 2
\* the failures in a row of one task in the escape runs
EscapeFails == 1

(* ------------------------- program constants --------------------------- *)
NoToken == 0
Margin == 90
DefaultExpiresIn == 3600

Procs == 1..NumProcs
Tokens == 1..NumTokens
Getters == {"get_access_token", "get_id_token"}
Ops == Getters \cup {"login"}

VARIABLES
    tm,         \* the credential set: access, idt, refresh, expires_at
    now,        \* time.monotonic()
    lockHolder, \* owner of CognitoTokenManager._lock, 0 when free
    lockQ,      \* coroutines suspended in _lock.acquire(), in arrival order
    call,       \* per coroutine: its token-manager call in progress
    nExch,      \* history: number of network exchanges completed so far
    firstExch,  \* history: the outcome of the first of them
    issuedStale,\* history: the call was issued while the cached token was stale
                \* and before any exchange had completed
    epc,        \* KitchenOSClient.execute: where the call stands
    eerr,       \* the exception execute raised, "none" if none
    posts,      \* history: the POSTs execute issued, <<token kind, status>>
    reqs,       \* history: the token-manager calls execute made
    listeners,  \* NotificationsManager._listeners: device -> set of callbacks
    states,     \* NotificationsManager._states: device -> snapshot
    avail,      \* NotificationsManager._availability: device -> flag
    regs,       \* unsubscribe closures handed out and not yet called
    handle,     \* NotificationsManager._task: a task, 0 for None
    stopFlag,   \* NotificationsManager._stop (asyncio.Event)
    task,       \* the asyncio tasks running _run
    spc,        \* a caller of stop(): where the call stands
    sAwait,     \* the task that caller awaits
    fired,      \* history: the callbacks invoked by the last step
    lastEv,     \* history: what the last step was
    stopDone,   \* history: stop() has returned and start() was not called since
    sent,       \* history: per device, the snapshot the last step passed to callbacks
    broken,     \* the callbacks that raise an Exception when they are invoked
    fatal,      \* per callback: the exception it raises, when it is invoked, that
                \* derives from BaseException and not from Exception; "none" if none
    order,      \* the keys of _availability in the order the dict keeps them,
                \* which is the order in which the devices were first observed
    frame,      \* history: the text frame handled by the last step
    hooks,      \* per callback: the callback whose unsubscribe closure it calls
                \* when it is invoked, 0 when it calls none
    xlog        \* history: the token-manager call that last entered the lock, the
                \* credential set and the time it found, and its exchanges

tmVars == <<tm, now, lockHolder, lockQ, call, nExch, firstExch, issuedStale>>
execVars == <<epc, eerr, posts, reqs>>
syncVars == <<listeners, states, avail, regs, handle, stopFlag, task, spc, sAwait,
              fired, lastEv, stopDone, sent, broken, fatal, order, frame, hooks>>
vars == <<tmVars, execVars, syncVars, xlog>>

(* ----------------------- identity-provider replies --------------------- *)
\* ExpiresIn values a reply may carry (seconds)
ExpiresInValues == {120}

NoBody == [access |-> NoToken, idt |-> NoToken, refresh |-> NoToken,
           exp |-> "absent", expires_in |-> 0]

\* status 0 stands for a transport error (no HTTP reply at all)
FailResponses ==
    { [status |-> s, body |-> b] @@ NoBody :
        <<s, b>> \in {<<400, "ok">>, <<0, "none">>, <<200, "nonjson">>, <<200, "noenvelope">>} }

\* a reply hands out token strings of one generation g, never the access
\* token string that is cached at the time (t); each of the three fields
\* AccessToken, IdToken, RefreshToken may be missing
OkResponses(t) ==
    { [status |-> 200, body |-> "ok",
       access |-> IF has[1] THEN g ELSE NoToken,
       idt |-> IF has[2] THEN g ELSE NoToken,
       refresh |-> IF has[3] THEN g ELSE NoToken,
       exp |-> e[1], expires_in |-> e[2]] :
        g \in Tokens \ {t.access}, has \in BOOLEAN \X BOOLEAN \X BOOLEAN,
        e \in {<<"absent", 0>>, <<"bad", 0>>} \cup { <<"num", x>> : x \in ExpiresInValues } }

Responses(t) == FailResponses \cup OkResponses(t)

\* the replies the concurrent callers are run against: a rejected request, or
\* a reply with all three tokens, without a refresh token or without an
\* access token, whose ExpiresIn is missing, a number or not a number
RaceResponses(t) ==
    { r \in Responses(t) :
        \/ r.status = 400
        \/ /\ r.status = 200 /\ r.body = "ok"
           /\ r.idt # NoToken
           /\ r.access # NoToken \/ r.refresh # NoToken }

(* --------------------------- CognitoTokenManager ----------------------- *)
tm0 == [access |-> NoToken, idt |-> NoToken, refresh |-> NoToken, expires_at |-> 0]

\* history only: no call has entered the lock yet
NoLog == [by |-> 0, op |-> "none", tm |-> tm0, at |-> 0, seq |-> <<>>]

IdleCall == [op |-> "none", pc |-> "idle", res |-> NoToken, err |-> "none", nexch |-> 0]

\* mutant: the stored refresh token is always replaced by the reply's
NewRefresh_Overwrites(t, r) == r.refresh

\* line 135: ar.get("RefreshToken") or self._refresh_token
NewRefresh(t, r) == IF r.refresh # NoToken THEN r.refresh ELSE t.refresh

\* _parse_auth_result: json.loads and data["AuthenticationResult"] raise before
\* any field is written; int(expires_in) raises after the three tokens were
\* written and before expires_at is.
ParseAuthResult(t, r, n) ==
    IF r.body # "ok"
    THEN [tm |-> t, ok |-> FALSE]
    ELSE LET t1 == [t EXCEPT !.access = r.access,
                             !.idt = r.idt,
                             !.refresh = NewRefresh(t, r)]
         IN IF r.exp = "bad"
            THEN [tm |-> t1, ok |-> FALSE]
            ELSE [tm |-> [t1 EXCEPT !.expires_at =
                            n + (IF r.exp = "absent" THEN DefaultExpiresIn ELSE r.expires_in)],
                  ok |-> TRUE]

\* the POST of _login_locked / _refresh_locked has answered with r
Exchange(t, r, n) ==
    IF r.status # 200
    THEN [tm |-> t, ok |-> FALSE,
          err |-> IF r.status = 0 THEN "ClientError" ELSE "CognitoAuthError"]
    ELSE ParseAuthResult(t, r, n) @@ [err |-> "CognitoAuthError"]

\* mutant: no cached token ever counts as fresh
IsFresh_Never(t, n) == FALSE

\* mutant: a token counts as fresh until the very moment it expires
IsFresh_NoMargin(t, n) == t.access # NoToken /\ n < t.expires_at

\* _ensure_fresh_locked, line 60
IsFresh(t, n) == t.access # NoToken /\ n < t.expires_at - Margin

\* what get_access_token / get_id_token / login do after their exchanges
Finish(op, t) ==
    IF op = "get_access_token" /\ t.access = NoToken
    THEN [pc |-> "raised", res |-> NoToken, err |-> "CognitoAuthError"]
    ELSE [pc |-> "returned",
          res |-> CASE op = "get_access_token" -> t.access
                    [] op = "get_id_token" -> t.idt
                    [] OTHER -> NoToken,
          err |-> "none"]

\* mutant: no mutual exclusion, every caller enters at once
LockFree_NoLock == TRUE

\* asyncio.Lock.acquire() returns at once only when the lock is free and every
\* coroutine queued for it has had its wait cancelled: "not self._locked and
\* all(w.cancelled() for w in self._waiters)". A cancelled wait stays in the
\* queue until its own coroutine runs again and removes it.
LockFree == lockHolder = 0 /\ \A i \in 1..Len(lockQ) : call[lockQ[i]].pc = "abandoned"

\* mutant: a stale token is always renewed by a login
FirstExchange_AlwaysLogin(t) == "logging_in"

\* _ensure_fresh_locked, lines 63-70: the exchange a stale token leads to first
FirstExchange(t) == IF t.refresh # NoToken THEN "refreshing" ELSE "logging_in"

\* mutant: login() goes through the freshness check like the getters
SkipsFreshCheck_Never(op) == FALSE

\* lines 74-75: login() awaits _login_locked() without _ensure_fresh_locked()
SkipsFreshCheck(op) == op = "login"

\* the body of "async with self._lock" up to its first suspension
Enter(p, op) ==
    IF SkipsFreshCheck(op)
    THEN /\ call' = [call EXCEPT ![p] = [IdleCall EXCEPT !.op = op, !.pc = "logging_in"]]
         /\ lockHolder' = p
    ELSE IF ~IsFresh(tm, now)
    THEN /\ call' = [call EXCEPT ![p] = [IdleCall EXCEPT !.op = op, !.pc = FirstExchange(tm)]]
         /\ lockHolder' = p
    ELSE /\ call' = [call EXCEPT ![p] = Finish(op, tm) @@ [IdleCall EXCEPT !.op = op]]
         /\ lockHolder' = 0

\* a coroutine calls get_access_token / get_id_token / login
StartCall(p, op) ==
    /\ issuedStale' = [issuedStale EXCEPT ![p] = ~IsFresh(tm, now) /\ nExch = 0]
    /\ IF LockFree
       THEN Enter(p, op) /\ UNCHANGED lockQ
       ELSE /\ call' = [call EXCEPT ![p] = [IdleCall EXCEPT !.op = op, !.pc = "waiting"]]
            /\ lockQ' = Append(lockQ, p)
            /\ UNCHANGED lockHolder
    /\ UNCHANGED <<tm, now, nExch, firstExch>>

\* callers are interchangeable: they are numbered in the order of their calls
TMCall(p, op) ==
    /\ call[p].pc = "idle"
    /\ \A q \in Procs : q < p => call[q].pc # "idle"
    /\ StartCall(p, op)

\* release(), and the cleanup of a cancelled wait when the lock is free, set
\* the result of the first wait in the queue unless it is done already: the
\* first queued coroutine is woken as soon as the lock is free
Woken(p) == lockHolder = 0 /\ lockQ # <<>> /\ Head(lockQ) = p /\ call[p].pc = "waiting"

\* Task.cancel() cancels the future its task is waiting on: a wait for the lock
\* that has not been woken becomes a cancelled wait; one that has been woken is
\* done and stays as it is
Abandon(p) ==
    IF call[p].pc = "waiting" /\ ~Woken(p)
    THEN [call EXCEPT ![p].pc = "abandoned"]
    ELSE call

\* the lock was released and the first queued coroutine resumes
TMAcquire(p) ==
    /\ call[p].pc = "waiting"
    /\ lockHolder = 0
    /\ lockQ # <<>> /\ Head(lockQ) = p
    /\ lockQ' = Tail(lockQ)
    /\ Enter(p, call[p].op)
    /\ UNCHANGED <<tm, now, nExch, firstExch, issuedStale>>

\* history only: who made the exchange, and whether it succeeded and stored an
\* access token (then fresh_until is the expiry it stored, else 0)
LogEntry(p, kind, x) ==
    [by |-> p,
     ok |-> x.ok /\ x.tm.access # NoToken,
     fresh_until |-> IF x.ok /\ x.tm.access # NoToken THEN x.tm.expires_at ELSE 0]

NoExch == [by |-> 0, ok |-> FALSE, fresh_until |-> 0]

\* history only: count the exchange and keep the outcome of the first one
Record(p, kind, x, rec) ==
    IF rec
    THEN /\ nExch' = nExch + 1
         /\ firstExch' = IF nExch = 0 THEN LogEntry(p, kind, x) ELSE firstExch
    ELSE UNCHANGED <<nExch, firstExch>>

\* the refresh POST answers: on success the getter returns, on any failure
\* _ensure_fresh_locked goes on to _login_locked
TMRefreshResponse(p, r, rec) ==
    /\ call[p].pc = "refreshing"
    /\ LET x == Exchange(tm, r, now) IN
       /\ tm' = x.tm
       /\ Record(p, "refresh", x, rec)
       /\ IF x.ok
          THEN /\ call' = [call EXCEPT ![p] =
                            Finish(call[p].op, x.tm) @@ [@ EXCEPT !.nexch = @ + 1]]
               /\ lockHolder' = 0
          ELSE /\ call' = [call EXCEPT ![p] = [@ EXCEPT !.pc = "logging_in", !.nexch = @ + 1]]
               /\ UNCHANGED lockHolder
    /\ UNCHANGED <<now, lockQ, issuedStale>>

\* the login POST answers
TMLoginResponse(p, r, rec) ==
    /\ call[p].pc = "logging_in"
    /\ LET x == Exchange(tm, r, now) IN
       /\ tm' = x.tm
       /\ Record(p, "login", x, rec)
       /\ call' = [call EXCEPT ![p] =
                     IF x.ok
                     THEN Finish(call[p].op, x.tm) @@ [@ EXCEPT !.nexch = @ + 1]
                     ELSE [@ EXCEPT !.pc = "raised", !.err = x.err, !.nexch = @ + 1]]
    /\ lockHolder' = 0
    /\ UNCHANGED <<now, lockQ, issuedStale>>

Tick ==
    /\ now + TickStep <= MaxNow
    /\ now' = now + TickStep
    /\ UNCHANGED <<tm, lockHolder, lockQ, call, nExch, firstExch, issuedStale>>

\* the credential sets a manager can hold when the calls are issued: the one
\* of __init__, or the one left by a login that succeeded at time 0 (with or
\* without a refresh token or an identity token, short-lived or not)
PriorLogins ==
    { [status |-> 200, body |-> "ok", access |-> 1,
       idt |-> IF has[1] THEN 1 ELSE NoToken,
       refresh |-> IF has[2] THEN 1 ELSE NoToken,
       exp |-> e[1], expires_in |-> e[2]] :
        has \in {<<TRUE, TRUE>>, <<TRUE, FALSE>>, <<FALSE, TRUE>>},
        e \in {<<"absent", 0>>, <<"num", 60>>} }

InitialCredentials ==
    {tm0} \cup { ParseAuthResult(tm0, r, 0).tm : r \in PriorLogins }

Devices == 1..NumDevices
Cbs == 1..NumCbs
\* the value None of a snapshot's "capability", line 405
NoCapability == [none |-> TRUE]
\* no entry in _states; a stored snapshot always differs from it
NoState == [device_state |-> "unset", capability |-> NoCapability]
\* an event's "capability" object and its "state" object, as the frame carries
\* them: 0 stands for a key that is missing or null, junk for any other key
NoSub == [id |-> 0, name |-> 0, text |-> 0, progress |-> 0, junk |-> 0]
AbsentCap == [shape |-> "absent", st |-> NoSub, ref |-> 0, junk |-> 0]
NoFrame == [kind |-> "none", dev |-> 0, state |-> "none", cap |-> AbsentCap, junk |-> 0]
NoTask == [pc |-> "none", backoff |-> 1, cancel |-> FALSE, fails |-> 0, sleep |-> 0, cleanFrom |-> 0,
           ran |-> FALSE, exc |-> FALSE, exit |-> "none"]
NoFired == [d \in Devices |-> [c \in Cbs |-> 0]]
NoSent == [d \in Devices |-> NoState]

InitExecVars ==
    /\ epc = "idle"
    /\ eerr = "none"
    /\ posts = <<>>
    /\ reqs = <<>>

\* NotificationsManager.__init__
InitSyncVars ==
    /\ listeners = [d \in Devices |-> {}]
    /\ states = [d \in Devices |-> NoState]
    /\ avail = [d \in Devices |-> "absent"]
    /\ regs = [d \in Devices |-> [c \in Cbs |-> 0]]
    /\ handle = 0
    /\ stopFlag = FALSE
    /\ task = [t \in Procs |-> NoTask]
    /\ spc = "idle"
    /\ sAwait = 0
    /\ fired = NoFired
    /\ lastEv = "other"
    /\ stopDone = FALSE
    /\ sent = NoSent
    /\ broken = {}
    /\ fatal = [c \in Cbs |-> "none"]
    /\ order = <<>>
    /\ frame = NoFrame
    /\ hooks = [c \in Cbs |-> 0]

InitTMVars ==
    /\ tm \in InitialCredentials
    /\ now = 0
    /\ lockHolder = 0
    /\ lockQ = <<>>
    /\ call = [p \in Procs |-> IdleCall]
    /\ nExch = 0
    /\ firstExch = NoExch
    /\ issuedStale = [p \in Procs |-> FALSE]

InitTM == InitTMVars /\ InitExecVars /\ InitSyncVars /\ xlog = NoLog

NextTM ==
    \/ (\E p \in Procs, op \in Ops : TMCall(p, op)) /\ UNCHANGED <<execVars, syncVars, xlog>>
    \/ (\E p \in Procs : TMAcquire(p)) /\ UNCHANGED <<execVars, syncVars, xlog>>
    \/ (\E p \in Procs, r \in RaceResponses(tm) : TMRefreshResponse(p, r, TRUE)) /\ UNCHANGED <<execVars, syncVars, xlog>>
    \/ (\E p \in Procs, r \in RaceResponses(tm) : TMLoginResponse(p, r, TRUE)) /\ UNCHANGED <<execVars, syncVars, xlog>>
    \/ (Tick) /\ UNCHANGED <<execVars, syncVars, xlog>>

SpecTM == InitTM /\ [][NextTM]_vars

\* history only: a call has entered the lock
LogEntered(p, op) == xlog' = [by |-> p, op |-> op, tm |-> tm, at |-> now, seq |-> <<>>]

\* history only: the call inside the lock has received reply r to its POST
LogExchange(kind, r) ==
    xlog' = [xlog EXCEPT !.seq = Append(@, [kind |-> kind, r |-> r, before |-> tm, at |-> now])]

\* one call of the token manager, alone, against every reply
Caller == 1

CallStart(p, op) == TMCall(p, op) /\ LogEntered(p, op)

CallRefreshResponse(p, r) == TMRefreshResponse(p, r, FALSE) /\ LogExchange("refresh", r)

CallLoginResponse(p, r) == TMLoginResponse(p, r, FALSE) /\ LogExchange("login", r)

NextCall ==
    \/ (\E op \in Ops : CallStart(Caller, op)) /\ UNCHANGED <<execVars, syncVars>>
    \/ (\E r \in Responses(tm) : CallRefreshResponse(Caller, r)) /\ UNCHANGED <<execVars, syncVars>>
    \/ (\E r \in Responses(tm) : CallLoginResponse(Caller, r)) /\ UNCHANGED <<execVars, syncVars>>
    \/ (Tick) /\ UNCHANGED <<execVars, syncVars, xlog>>

SpecCall == InitTM /\ [][NextCall]_vars

(* ---------------------------- KitchenOSClient -------------------------- *)
\* the statuses the command endpoint is run against
Statuses == {200, 201, 202, 204, 401, 403, 404, 500}

\* mutant: 204 No Content is not taken for a success
Success_No204 == {200, 201, 202}

\* lines 239, 250, 263
Success == {200, 201, 202, 204}

\* mutant: every 4xx status is taken for an auth failure
AuthClass_All4xx == {401, 403, 404}

\* lines 244, 257
AuthClass == {401, 403}

\* mutant: an auth failure of the last retry forces another login
AfterPost_Loop(stage, st) ==
    CASE stage = "post_id1" ->
            IF st \in Success THEN "return"
            ELSE IF st \notin AuthClass THEN "raise" ELSE "get_access"
      [] stage = "post_acc1" ->
            IF st \in Success THEN "return"
            ELSE IF st \in AuthClass THEN "login" ELSE "raise"
      [] stage = "post_id2" ->
            IF st \in Success THEN "return" ELSE "get_access"
      [] OTHER -> IF st \in AuthClass THEN "login" ELSE "raise"

\* what execute does with the status of a POST, by the place of the POST:
\* first identity attempt (238-245), first access attempt (249-259),
\* identity retry (262-267), access retry (269-272)
AfterPost(stage, st) ==
    CASE stage = "post_id1" ->
            IF st \in Success THEN "return"
            ELSE IF st \notin AuthClass THEN "raise" ELSE "get_access"
      [] stage = "post_acc1" ->
            IF st \in Success THEN "return"
            ELSE IF st \in AuthClass THEN "login" ELSE "raise"
      [] stage = "post_id2" ->
            IF st \in Success THEN "return" ELSE "get_access"
      [] OTHER -> "raise"

ExecProc == CHOOSE p \in Procs : \A q \in Procs : p <= q

PostStages == {"post_id1", "post_acc1", "post_id2", "post_acc2"}
TokenStages == {"get_id1", "get_acc1", "login", "get_id2", "get_acc2"}

\* execute awaits a token-manager call
Request(op, stage) ==
    /\ StartCall(ExecProc, op)
    /\ reqs' = Append(reqs, op)
    /\ epc' = stage
    /\ UNCHANGED <<eerr, posts>>

\* execute is called: line 236
ExecStart ==
    /\ epc = "idle"
    /\ Request("get_id_token", "get_id1")

\* a token-manager call of execute has finished: its exception propagates, or
\* execute sends the POST with the token it got (lines 237-238, 248-249,
\* 260-262, 268-269), or asks for the access token when there is no identity
\* token
ExecGotToken ==
    /\ epc \in TokenStages
    /\ call[ExecProc].pc \in {"returned", "raised"}
    /\ IF call[ExecProc].pc = "raised"
       THEN /\ epc' = "raised"
            /\ eerr' = call[ExecProc].err
            /\ call' = [call EXCEPT ![ExecProc] = IdleCall]
            /\ UNCHANGED <<tm, now, lockHolder, lockQ, nExch, firstExch, issuedStale, posts, reqs>>
       ELSE CASE epc = "login" -> Request("get_id_token", "get_id2")
              [] epc \in {"get_id1", "get_id2"} /\ call[ExecProc].res = NoToken ->
                    Request("get_access_token",
                            IF epc = "get_id1" THEN "get_acc1" ELSE "get_acc2")
              [] OTHER ->
                    /\ epc' = CASE epc = "get_id1" -> "post_id1"
                                [] epc = "get_acc1" -> "post_acc1"
                                [] epc = "get_id2" -> "post_id2"
                                [] OTHER -> "post_acc2"
                    /\ call' = [call EXCEPT ![ExecProc] = IdleCall]
                    /\ UNCHANGED <<tm, now, lockHolder, lockQ, nExch, firstExch, issuedStale,
                                   eerr, posts, reqs>>

\* the command endpoint answers a POST with status st
ExecResponse(st) ==
    /\ epc \in PostStages
    /\ posts' = Append(posts, <<IF epc \in {"post_id1", "post_id2"} THEN "id" ELSE "access", st>>)
    /\ LET d == AfterPost(epc, st) IN
       CASE d = "return" ->
              /\ epc' = "returned"
              /\ UNCHANGED <<tmVars, eerr, reqs>>
         [] d = "raise" ->
              /\ epc' = "raised"
              /\ eerr' = "RuntimeError"
              /\ UNCHANGED <<tmVars, reqs>>
         [] d = "login" ->
              /\ StartCall(ExecProc, "login")
              /\ reqs' = Append(reqs, "login")
              /\ epc' = "login"
              /\ UNCHANGED eerr
         [] OTHER ->
              /\ StartCall(ExecProc, "get_access_token")
              /\ reqs' = Append(reqs, "get_access_token")
              /\ epc' = IF epc = "post_id1" THEN "get_acc1" ELSE "get_acc2"
              /\ UNCHANGED eerr

InitExec == InitTMVars /\ InitExecVars /\ InitSyncVars /\ xlog = NoLog

NextExec ==
    \/ (ExecStart) /\ UNCHANGED <<syncVars, xlog>>
    \/ (ExecGotToken) /\ UNCHANGED <<syncVars, xlog>>
    \/ (\E st \in Statuses : ExecResponse(st)) /\ UNCHANGED <<syncVars, xlog>>
    \/ (\E r \in Responses(tm) : TMRefreshResponse(ExecProc, r, FALSE)) /\ UNCHANGED <<execVars, syncVars, xlog>>
    \/ (\E r \in Responses(tm) : TMLoginResponse(ExecProc, r, FALSE)) /\ UNCHANGED <<execVars, syncVars, xlog>>
    \/ (Tick) /\ UNCHANGED <<execVars, syncVars, xlog>>

SpecExec == InitExec /\ [][NextExec]_vars

(* ----------------------------- claims: C1 ------------------------------ *)
Called == { p \in Procs : call[p].pc # "idle" }
Finished == { p \in Procs : call[p].pc \in {"returned", "raised"} }
InFlight == { p \in Procs : call[p].pc \in {"refreshing", "logging_in"} }

\* the token a getter returns when it returns what is stored in t
TokenOf(t, op) == IF op = "get_access_token" THEN t.access ELSE t.idt

\* the first exchange succeeded and its access token is still fresh by the margin
FirstExchangeFresh ==
    /\ nExch >= 1
    /\ firstExch.ok
    /\ now < firstExch.fresh_until - Margin

ConcurrentStaleGetters ==
    \A p \in Called : call[p].op \in Getters /\ issuedStale[p]

\* C1 as stated: whenever getters issued concurrently while the cached token
\* was stale have all finished, exactly one exchange was performed in total and
\* every caller returned the token it produced (the one stored by it).
C1_ExactlyOneExchange ==
    (Finished = Procs /\ ConcurrentStaleGetters)
        => /\ nExch = 1
           /\ \A p \in Procs : /\ call[p].pc = "returned"
                                /\ call[p].res = TokenOf(tm, call[p].op)

\* C1 as amended: the calls are serialized, so at most one exchange is in
\* flight; and when the first exchange succeeds with an access token that is
\* (and stays) fresh by the 90-second margin, it is the only exchange performed
\* (the credential set is still the one it stored) and every getter issued
\* while the token was stale returns its token, only its caller having
\* exchanged.
C1_OneExchangeWhenFirstSucceeds ==
    /\ Cardinality(InFlight) <= 1
    /\ (ConcurrentStaleGetters /\ FirstExchangeFresh)
         => /\ nExch = 1
            /\ InFlight = {}
            /\ tm.expires_at = firstExch.fresh_until
            /\ \A p \in Finished : /\ call[p].pc = "returned"
                                    /\ call[p].res = TokenOf(tm, call[p].op)
                                    /\ call[p].nexch = IF p = firstExch.by THEN 1 ELSE 0

\* two getters issued while stale, one exchange, the second caller returns its token
C1_Witness ==
    /\ Finished = Procs
    /\ ConcurrentStaleGetters /\ FirstExchangeFresh
    /\ nExch = 1
    /\ \E p \in Procs : /\ p # firstExch.by
                         /\ call[p].nexch = 0
                         /\ call[p].op = "get_access_token"
                         /\ call[p].res = tm.access

(* -------------------------- NotificationsManager ----------------------- *)
InitialBackoff == 1
MaxBackoff == 30

Min(a, b) == IF a <= b THEN a ELSE b

\* mutant: the backoff doubles without a ceiling
NextBackoff_NoCap(b) == b * 2

\* line 351
NextBackoff(b) == Min(b * 2, MaxBackoff)

\* mutant: a clean exit of _pump keeps the backoff
ResetBackoff_Keep(b) == b

\* line 345
ResetBackoff(b) == InitialBackoff

\* the replies of the identity provider the reconnect loop is run against: a
\* rejected login, or a login that succeeds with or without an identity token
SyncResponses(t) ==
    { r \in Responses(t) :
        \/ r.status = 400
        \/ /\ r.status = 200 /\ r.body = "ok" /\ r.exp = "absent"
           /\ r.access # NoToken /\ r.refresh # NoToken }

\* the text frames the push channel is run against
StateTags == {"Idle", "Running"}
FirstTag == "Idle"
Messages ==
    { [kind |-> k, dev |-> 0, state |-> "none", cap |-> AbsentCap, junk |-> 0] :
        k \in {"nonjson", "forbidden", "nodev", "nonobject"} }
    \cup { [kind |-> "state", dev |-> d, state |-> st, cap |-> c, junk |-> 0] :
             d \in Devices, st \in StateTags, c \in {AbsentCap} }

\* a task that has ended: only the way it ended is kept. "done" is a task whose
\* _run is over, by a return or, when exc is set, by an exception; "cancelled"
\* is a task that ended cancelled
Ended(how) == [NoTask EXCEPT !.pc = how]

Alive(t) == task[t].pc \notin {"none", "done", "cancelled"}
TaskDone(t) == task[t].pc \in {"done", "cancelled"}

\* a step in which no callback is invoked
NoDelivery == fired' = NoFired /\ sent' = NoSent /\ UNCHANGED <<broken, fatal, order>>

\* the exceptions a callback may raise that derive from BaseException alone
RaiseKinds == {"CancelledError", "BaseException"}

\* lines 308-311 and 424-427: the call of a callback is wrapped in
\* "try ... except Exception: pass". What the callback raises goes no further
\* when it derives from Exception; asyncio.CancelledError and every other
\* class derived from BaseException alone pass through the handler
Escapes(c) == fatal[c] # "none"

Throwers(cbs) == { c \in cbs : Escapes(c) }

NoCalls == [c \in Cbs |-> 0]
CallsOf(cbs) == [c \in Cbs |-> IF c \in cbs THEN 1 ELSE 0]
NoRaiser == [calls |-> NoCalls, raiser |-> 0]

\* _dispatch, lines 423-427: the callbacks of a copy of the set are called in
\* turn, in the order in which the set yields them, which the code does not
\* control. The loop ends after the last of them, or with the first whose
\* exception escapes: the callbacks that come after it are not called. An
\* outcome is the calls made and the callback whose exception escaped, 0 if none
Invoke(cbs) ==
    IF Throwers(cbs) = {}
    THEN {[calls |-> CallsOf(cbs), raiser |-> 0]}
    ELSE {[calls |-> CallsOf(before \cup {c}), raiser |-> c] :
             c \in Throwers(cbs), before \in SUBSET (cbs \ Throwers(cbs))}

\* _dispatch(d) with outcome o
Dispatch(d, o) == [NoFired EXCEPT ![d] = o.calls]

\* lines 382-384: the loop over the keys of _availability goes as far as the
\* first device that has a callback whose exception escapes: its place in the
\* order, 0 when the loop reaches its end
StopAt ==
    LET I == { i \in 1..Len(order) : Throwers(listeners[order[i]]) # {} } IN
    IF I = {} THEN 0 ELSE CHOOSE i \in I : \A j \in I : i <= j

\* the devices that loop marks and dispatches
Reached == { order[i] : i \in 1..(IF StopAt = 0 THEN Len(order) ELSE StopAt) }

\* lines 382-384: _dispatch(dev) for every device reached, with outcome o for
\* the device at which the loop is left
DispatchKnown(o) ==
    [d \in Devices |->
        IF d \notin Reached THEN NoCalls
        ELSE IF StopAt # 0 /\ d = order[StopAt] THEN o.calls
        ELSE CallsOf(listeners[d])]

\* the kind of the exception callback c raises past "except Exception"
Escaped(c) == fatal[c]

\* the registrations of device d that the callbacks invoked by a dispatch (f
\* counts its calls) remove: a callback may call the closure _remove of another
\* registration of d, lines 312-313
Removed(d, f) ==
    { h \in Cbs : regs[d][h] > 0 /\ \E c \in Cbs : f[c] > 0 /\ hooks[c] = h }
ListenersAfter(ls, fd) == [d \in Devices |-> ls[d] \ Removed(d, fd[d])]
RegsAfter(fd) ==
    [d \in Devices |-> [c \in Cbs |-> IF c \in Removed(d, fd[d]) THEN regs[d][c] - 1 ELSE regs[d][c]]]

\* the argument of the callbacks: lines 309 and 425
Payload(st, d, f) == IF f[d] # NoCalls THEN st[d] ELSE NoState

\* mutant: registration never delivers the stored snapshot
HasSnapshot_Never(d) == FALSE

\* line 307: device_id in self._states
HasSnapshot(d) == states[d] # NoState

\* get_state, line 317: the stored snapshot, None when there is none
GetState(d) == states[d]

\* line 321, the default of the lookup: self._task is not None and not self._task.done()
DefaultAvailable == handle # 0 /\ ~TaskDone(handle)

\* is_available, line 321: self._availability.get(device_id, default)
IsAvailable(d) == IF avail[d] # "absent" THEN avail[d] = "true" ELSE DefaultAvailable

\* add_listener: cb is added to the set (line 305) and called with the stored
\* snapshot when there is one (lines 307-311). When its exception escapes, it
\* leaves add_listener: the caller gets no closure _remove, and cb stays in the
\* set
AddListener(d, cb) ==
    /\ regs[d][cb] < MaxRegs
    /\ fired' = IF HasSnapshot(d) THEN Dispatch(d, [calls |-> CallsOf({cb}), raiser |-> 0]) ELSE NoFired
    /\ listeners' = ListenersAfter([listeners EXCEPT ![d] = @ \cup {cb}], fired')
    /\ IF HasSnapshot(d) /\ Escapes(cb)
       THEN /\ regs' = RegsAfter(fired')
            /\ lastEv' = "other"
       ELSE /\ regs' = [RegsAfter(fired') EXCEPT ![d][cb] = @ + 1]
            /\ lastEv' = "add_listener"
    /\ sent' = [x \in Devices |-> Payload(states, x, fired')]
    /\ UNCHANGED <<states, avail, handle, stopFlag, task, spc, sAwait, stopDone, broken, fatal, order, tmVars>>

\* the closure _remove returned by add_listener
Unsubscribe(d, cb) ==
    /\ regs[d][cb] > 0
    /\ listeners' = [listeners EXCEPT ![d] = @ \ {cb}]
    /\ regs' = [regs EXCEPT ![d][cb] = @ - 1]
    /\ NoDelivery
    /\ lastEv' = "other"
    /\ UNCHANGED <<states, avail, handle, stopFlag, task, spc, sAwait, stopDone, tmVars>>

\* a task object that nothing refers to any more can stand for a new task
FreeSlots == { t \in Procs : ~Alive(t) /\ ~(spc = "awaiting" /\ sAwait = t) }

\* start()
Start ==
    /\ NoDelivery
    /\ lastEv' = "other"
    /\ stopDone' = FALSE
    /\ IF handle # 0 /\ ~TaskDone(handle)
       THEN UNCHANGED <<handle, stopFlag, task>>
       ELSE /\ FreeSlots # {}
            /\ LET t == CHOOSE x \in FreeSlots : \A y \in FreeSlots : x <= y IN
               /\ task' = [task EXCEPT ![t] = [NoTask EXCEPT !.pc = "created"]]
               /\ handle' = t
            /\ stopFlag' = FALSE
    /\ UNCHANGED <<listeners, states, avail, regs, spc, sAwait, tmVars>>

\* _run, line 342: the loop goes on with _pump, whose first await is the login
\* POST of self._tm.login(), or ends
LoopCheck(t, rec) ==
    IF stopFlag
    THEN /\ task' = [task EXCEPT ![t] = Ended("done")]
         /\ UNCHANGED tmVars
    ELSE /\ task' = [task EXCEPT ![t] = [rec EXCEPT !.pc = "login"]]
         /\ StartCall(t, "login")

\* mutant: the loop does not sleep after a failure
SleepFor_Zero(b) == 0

\* line 350: asyncio.sleep(backoff)
SleepFor(b) == b

\* _run, lines 348-350: an exception of _pump is logged and the loop sleeps
Fail(t, rec) ==
    task' = [task EXCEPT ![t] = [rec EXCEPT !.pc = "sleeping",
                                            !.sleep = SleepFor(rec.backoff),
                                            !.fails = rec.fails + 1]]

\* the server and the network let an attempt fail only while the task has
\* failed fewer than k times in a row
CanFail(t, k) == task[t].fails < k

\* _run, lines 346-351: an exception of kind k comes out of _pump. An Exception
\* is logged and the loop sleeps; CancelledError is caught at line 346 and _run
\* returns; no handler catches another BaseException, and the task ends with it
Raised(t, rec, k) ==
    IF k = "Exception"
    THEN Fail(t, [rec EXCEPT !.exit = "none"])
    ELSE task' = [task EXCEPT ![t] = [Ended("done") EXCEPT !.exc = (k # "CancelledError")]]

\* line 366: the block of "async with" is left, by an exception of kind k or,
\* for k = "clean", by the end of the frame loop. The exit of the context
\* manager awaits the close of the websocket: the task is suspended there
Closing(t, rec, k) == task' = [task EXCEPT ![t] = [rec EXCEPT !.pc = "closing", !.exit = k]]

\* line 366: an exception of kind k leaves the block. The await of the close
\* returns at once, and the exception goes on into _run, or it suspends the task
LeavesBlock(t, rec, k) == Raised(t, rec, k) \/ Closing(t, rec, k)

\* the event loop runs the new task for the first time
TaskRun(t) ==
    /\ task[t].pc = "created" /\ ~task[t].cancel
    /\ LoopCheck(t, [task[t] EXCEPT !.backoff = InitialBackoff])
    /\ NoDelivery
    /\ lastEv' = "other"
    /\ UNCHANGED <<listeners, states, avail, regs, handle, stopFlag, spc, sAwait, stopDone>>

\* _pump, lines 357-358
TaskLoginDone(t) ==
    /\ task[t].pc = "login" /\ ~task[t].cancel
    /\ call[t].pc \in {"returned", "raised"}
    /\ IF call[t].pc = "returned"
       THEN /\ StartCall(t, "get_id_token")
            /\ task' = [task EXCEPT ![t].pc = "getid"]
       ELSE /\ Fail(t, task[t])
            /\ call' = [call EXCEPT ![t] = IdleCall]
            /\ UNCHANGED <<tm, now, lockHolder, lockQ, nExch, firstExch, issuedStale>>
    /\ NoDelivery
    /\ lastEv' = "other"
    /\ UNCHANGED <<listeners, states, avail, regs, handle, stopFlag, spc, sAwait, stopDone>>

\* mutant: the connection is opened whatever get_id_token returned
HasIdToken_Any(res) == TRUE

\* lines 359-360: "if not idt: raise RuntimeError"
HasIdToken(res) == res # NoToken

\* _pump, lines 358-366
TaskGotId(t) ==
    /\ task[t].pc = "getid" /\ ~task[t].cancel
    /\ call[t].pc \in {"returned", "raised"}
    /\ IF call[t].pc = "returned" /\ HasIdToken(call[t].res)
       THEN task' = [task EXCEPT ![t].pc = "connecting"]
       ELSE Fail(t, task[t])
    /\ call' = [call EXCEPT ![t] = IdleCall]
    /\ NoDelivery
    /\ lastEv' = "other"
    /\ UNCHANGED <<tm, now, lockHolder, lockQ, nExch, firstExch, issuedStale>>
    /\ UNCHANGED <<listeners, states, avail, regs, handle, stopFlag, spc, sAwait, stopDone>>

\* _pump, lines 366-370: the websocket is open
ConnectOK(t) ==
    /\ task[t].pc = "connecting" /\ ~task[t].cancel
    /\ task' = [task EXCEPT ![t].pc = "connected"]
    /\ avail' = [d \in Devices |-> IF avail[d] # "absent" THEN "true" ELSE "absent"]
    /\ NoDelivery
    /\ lastEv' = "other"
    /\ UNCHANGED <<listeners, states, regs, handle, stopFlag, spc, sAwait, stopDone, tmVars>>

\* ws_connect raises
ConnectFail(t, k) ==
    /\ task[t].pc = "connecting" /\ ~task[t].cancel
    /\ CanFail(t, k)
    /\ Fail(t, task[t])
    /\ NoDelivery
    /\ lastEv' = "other"
    /\ UNCHANGED <<listeners, states, avail, regs, handle, stopFlag, spc, sAwait, stopDone, tmVars>>

\* lines 407-416: an empty or missing capability object gives None; otherwise
\* four fields are read from its "state" object, itself replaced by {} when
\* missing or empty, and the reference id from the capability object
Capability(cap) ==
    IF cap.shape \in {"absent", "empty"}
    THEN NoCapability
    ELSE [id |-> cap.st.id, name |-> cap.st.name, text |-> cap.st.text,
          progress |-> cap.st.progress, reference_capability_id |-> cap.ref]

\* lines 403-416
Snapshot(m) == [device_state |-> m.state, capability |-> Capability(m.cap)]

\* line 418: the new dict replaces the stored one
Store(old, new) == new

\* mutant: a frame that is dropped ends the connection like an error
Returned_Raises(t) == Fail(t, [task[t] EXCEPT !.ran = TRUE])

\* line 374: _handle_message has returned and the frame loop goes on
Returned(t) == task' = [task EXCEPT ![t].ran = TRUE]

\* _pump, lines 373-374, and _handle_message: a text frame arrives
RecvText(t, m, k) ==
    /\ task[t].pc = "connected" /\ ~task[t].cancel
    /\ m.kind = "nonobject" => CanFail(t, k)
    /\ CASE m.kind = "state" ->
              \* lines 418-420: the snapshot and the flag are stored, then the
              \* callbacks are called
              /\ states' = [states EXCEPT ![m.dev] = Store(@, Snapshot(m))]
              /\ avail' = [avail EXCEPT ![m.dev] = "true"]
              /\ order' = IF avail[m.dev] = "absent" THEN Append(order, m.dev) ELSE order
              /\ \E o \in Invoke(listeners[m.dev]) :
                    /\ fired' = Dispatch(m.dev, o)
                    /\ IF o.raiser = 0
                       THEN /\ lastEv' = "message"
                            /\ task' = [task EXCEPT ![t].ran = TRUE]
                       ELSE /\ lastEv' = "other"
                            /\ LeavesBlock(t, [task[t] EXCEPT !.ran = TRUE], Escaped(o.raiser))
              /\ sent' = [x \in Devices |-> Payload(states', x, fired')]
              /\ listeners' = ListenersAfter(listeners, fired')
              /\ regs' = RegsAfter(fired')
              /\ UNCHANGED <<broken, fatal>>
         [] m.kind = "nonobject" ->
              \* obj.get raises AttributeError, which leaves _pump
              /\ LeavesBlock(t, [task[t] EXCEPT !.ran = TRUE], "Exception")
              /\ NoDelivery
              /\ lastEv' = IF task'[t].pc = "closing" THEN "other" ELSE "closed_error"
              /\ UNCHANGED <<states, avail, listeners, regs>>
         [] OTHER ->
              /\ NoDelivery
              /\ lastEv' = "other"
              /\ Returned(t)
              /\ UNCHANGED <<states, avail, listeners, regs>>
    /\ UNCHANGED <<handle, stopFlag, spc, sAwait, stopDone, tmVars>>

\* _pump, lines 375-376: an ERROR frame raises RuntimeError out of _pump
RecvError(t, k) ==
    /\ task[t].pc = "connected" /\ ~task[t].cancel
    /\ CanFail(t, k)
    /\ LeavesBlock(t, task[t], "Exception")
    /\ NoDelivery
    /\ lastEv' = IF task'[t].pc = "closing" THEN "other" ELSE "closed_error"
    /\ UNCHANGED <<listeners, states, avail, regs, handle, stopFlag, spc, sAwait, stopDone, tmVars>>

\* _pump, lines 380-384, and _run, line 345: the block was left by the end of
\* the frame loop. Each device in turn is marked unavailable and dispatched;
\* an exception that escapes a callback here goes straight on into _run
Disconnected(t) ==
    /\ avail' = [d \in Devices |-> IF d \in Reached THEN "false" ELSE avail[d]]
    /\ \E o \in (IF StopAt = 0 THEN {NoRaiser} ELSE Invoke(listeners[order[StopAt]])) :
          /\ fired' = DispatchKnown(o)
          /\ IF StopAt = 0
             THEN /\ lastEv' = "closed_clean"
                  /\ LoopCheck(t, [task[t] EXCEPT !.exit = "none",
                                                  !.backoff = ResetBackoff(@),
                                                  !.fails = 0,
                                                  !.cleanFrom = task[t].backoff,
                                                  !.ran = FALSE])
             ELSE /\ lastEv' = "other"
                  /\ Raised(t, task[t], Escaped(o.raiser))
                  /\ UNCHANGED tmVars
    /\ sent' = [x \in Devices |-> Payload(states, x, fired')]
    /\ listeners' = ListenersAfter(listeners, fired')
    /\ regs' = RegsAfter(fired')
    /\ UNCHANGED <<broken, fatal, order>>
    /\ UNCHANGED <<states, handle, stopFlag, spc, sAwait, stopDone>>

\* _pump, lines 377-378: the server closes the connection and the frame loop
\* ends. The close awaited at the exit of the block returns at once, and lines
\* 380-384 follow, or it suspends the task
RecvClosed(t) ==
    /\ task[t].pc = "connected" /\ ~task[t].cancel
    /\ \/ Disconnected(t)
       \/ /\ Closing(t, task[t], "clean")
          /\ NoDelivery
          /\ lastEv' = "other"
          /\ UNCHANGED <<listeners, states, avail, regs, handle, stopFlag, spc, sAwait, stopDone, tmVars>>

\* line 366: the close awaited at the exit of the block is over and the task
\* resumes: with lines 380-384 after a clean end of the frame loop, in _run
\* with the exception that left the block otherwise
TaskClosed(t) ==
    /\ task[t].pc = "closing" /\ ~task[t].cancel
    /\ IF task[t].exit = "clean"
       THEN Disconnected(t)
       ELSE /\ Raised(t, task[t], task[t].exit)
            /\ NoDelivery
            /\ lastEv' = IF task[t].exit = "Exception" THEN "closed_error" ELSE "other"
            /\ UNCHANGED <<listeners, states, avail, regs, handle, stopFlag, spc, sAwait, stopDone, tmVars>>

\* _run, lines 350-351: the sleep is over
Wake(t) ==
    /\ task[t].pc = "sleeping" /\ ~task[t].cancel
    /\ LoopCheck(t, [task[t] EXCEPT !.backoff = NextBackoff(@),
                                    !.sleep = 0,
                                    !.cleanFrom = 0,
                                    !.ran = FALSE])
    /\ NoDelivery
    /\ lastEv' = "other"
    /\ UNCHANGED <<listeners, states, avail, regs, handle, stopFlag, spc, sAwait, stopDone>>

\* Task.cancel() was called: the next step of the task raises CancelledError at
\* its await. Inside _pump it is caught at line 346 and _run returns; in the
\* sleep of line 350, and in a task that never ran, nothing catches it and the
\* task ends cancelled. Raised in the frame wait of line 372 it leaves the
\* block of "async with" first: the close awaited at the exit of the block
\* returns at once, or it suspends the task, which ends when the close is over.
TaskCancelled(t) ==
    /\ Alive(t) /\ task[t].cancel
    /\ \/ /\ task' = [task EXCEPT ![t] =
                        Ended(IF task[t].pc \in {"created", "sleeping"} THEN "cancelled" ELSE "done")]
          /\ lastEv' = IF task[t].pc = "connected" THEN "closed_cancel" ELSE "other"
       \/ /\ task[t].pc = "connected"
          /\ Closing(t, task[t], "CancelledError")
          /\ lastEv' = "other"
    /\ call' = [call EXCEPT ![t] = IdleCall]
    /\ lockHolder' = IF lockHolder = t THEN 0 ELSE lockHolder
    /\ lockQ' = SelectSeq(lockQ, LAMBDA x : x # t)
    /\ NoDelivery
    /\ UNCHANGED <<tm, now, nExch, firstExch, issuedStale>>
    /\ UNCHANGED <<listeners, states, avail, regs, handle, stopFlag, spc, sAwait, stopDone>>

\* the await of line 334 returns: the task is over and ended by a return
AwaitReturns(t) == task[t].pc = "done" /\ ~task[t].exc

\* stop() up to its await: lines 330-334. Awaiting a task that is already done
\* does not suspend: it returns, or raises what the task ended with.
StopCall ==
    /\ spc # "awaiting"
    /\ stopFlag' = TRUE
    /\ NoDelivery
    /\ IF handle = 0 \/ AwaitReturns(handle)
       THEN /\ handle' = 0
            /\ stopDone' = TRUE
            /\ lastEv' = "stop_returned"
            /\ UNCHANGED <<task, spc, sAwait>>
       ELSE IF TaskDone(handle)
       THEN /\ lastEv' = "stop_raised"
            /\ UNCHANGED <<handle, task, spc, sAwait, stopDone>>
       ELSE /\ task' = [task EXCEPT ![handle].cancel = TRUE]
            /\ spc' = "awaiting"
            /\ sAwait' = handle
            /\ lastEv' = "other"
            /\ UNCHANGED <<handle, stopDone>>
    /\ call' = IF handle # 0 /\ ~TaskDone(handle) THEN Abandon(handle) ELSE call
    /\ UNCHANGED <<tm, now, lockHolder, lockQ, nExch, firstExch, issuedStale>>
    /\ UNCHANGED <<listeners, states, avail, regs>>

\* stop() resumes when the awaited task has ended: lines 334-337.
\* CancelledError is no Exception, so "except Exception" lets it through, as it
\* does any other BaseException the task ended with.
StopResume ==
    /\ spc = "awaiting"
    /\ TaskDone(sAwait)
    /\ NoDelivery
    /\ sAwait' = 0
    /\ spc' = "idle"
    /\ IF AwaitReturns(sAwait)
       THEN /\ handle' = 0
            /\ stopDone' = TRUE
            /\ lastEv' = "stop_returned"
       ELSE /\ lastEv' = "stop_raised"
            /\ UNCHANGED <<handle, stopDone>>
    /\ UNCHANGED <<listeners, states, avail, regs, stopFlag, task, tmVars>>

\* the steps of a task's token-manager calls. No time passes in these runs and
\* every successful login stores the default lifetime, so get_id_token finds
\* the token fresh and no refresh exchange is made.
SyncTM(k) ==
    /\ \E t \in Procs :
         /\ ~task[t].cancel
         /\ \/ TMAcquire(t)
            \/ \E r \in SyncResponses(tm) :
                 /\ r.status # 200 => CanFail(t, k)
                 /\ r.idt = NoToken => \A u \in Procs : CanFail(u, k)
                 /\ TMLoginResponse(t, r, FALSE)
    /\ NoDelivery
    /\ lastEv' = "other"
    /\ UNCHANGED <<listeners, states, avail, regs, handle, stopFlag, task, spc, sAwait, stopDone>>

InitSync == InitTMVars /\ tm = tm0 /\ InitExecVars /\ InitSyncVars /\ xlog = NoLog

\* one start() and no stop(): the reconnect loop, the frames and the listeners
NextRun ==
    \/ (Start) /\ UNCHANGED <<execVars, xlog, frame, hooks>>
    \/ (\E d \in Devices, cb \in Cbs : regs[d][cb] = 0 /\ AddListener(d, cb)) /\ UNCHANGED <<execVars, xlog, frame, hooks>>
    \/ (\E d \in Devices, cb \in Cbs : Unsubscribe(d, cb)) /\ UNCHANGED <<execVars, xlog, frame, hooks>>
    \/ (\E t \in Procs : TaskRun(t)) /\ UNCHANGED <<execVars, xlog, frame, hooks>>
    \/ (\E t \in Procs : TaskLoginDone(t)) /\ UNCHANGED <<execVars, xlog, frame, hooks>>
    \/ (\E t \in Procs : TaskGotId(t)) /\ UNCHANGED <<execVars, xlog, frame, hooks>>
    \/ (\E t \in Procs : ConnectOK(t)) /\ UNCHANGED <<execVars, xlog, frame, hooks>>
    \/ (\E t \in Procs : ConnectFail(t, MaxFails)) /\ UNCHANGED <<execVars, xlog, frame, hooks>>
    \/ (\E t \in Procs, m \in Messages : RecvText(t, m, MaxFails)) /\ UNCHANGED <<execVars, xlog, frame, hooks>>
    \/ (\E t \in Procs : RecvError(t, MaxFails)) /\ UNCHANGED <<execVars, xlog, frame, hooks>>
    \/ (\E t \in Procs : RecvClosed(t)) /\ UNCHANGED <<execVars, xlog, frame, hooks>>
    \/ (\E t \in Procs : TaskClosed(t)) /\ UNCHANGED <<execVars, xlog, frame, hooks>>
    \/ (\E t \in Procs : Wake(t)) /\ UNCHANGED <<execVars, xlog, frame, hooks>>
    \/ (SyncTM(MaxFails)) /\ UNCHANGED <<execVars, xlog, frame, hooks>>

SpecRun == InitSync /\ [][NextRun]_vars

\* a callback begins or ceases to raise when it is invoked
Toggle(cb) ==
    /\ broken' = IF cb \in broken THEN broken \ {cb} ELSE broken \cup {cb}
    /\ fired' = NoFired
    /\ sent' = NoSent
    /\ lastEv' = "other"
    /\ UNCHANGED <<fatal, order, listeners, states, avail, regs, handle, stopFlag, task, spc, sAwait, stopDone, tmVars>>

\* the listener runs: one start(), a server that never fails, state frames of
\* every device, and callbacks registered up to MaxRegs times
ListenMessages == { m \in Messages : m.kind = "state" }

NextListen ==
    \/ (Start) /\ UNCHANGED <<execVars, xlog, frame, hooks>>
    \/ (\E d \in Devices, cb \in Cbs : AddListener(d, cb)) /\ UNCHANGED <<execVars, xlog, frame, hooks>>
    \/ (\E d \in Devices, cb \in Cbs : Unsubscribe(d, cb)) /\ UNCHANGED <<execVars, xlog, frame, hooks>>
    \/ (\E t \in Procs : TaskRun(t)) /\ UNCHANGED <<execVars, xlog, frame, hooks>>
    \/ (\E t \in Procs : TaskLoginDone(t)) /\ UNCHANGED <<execVars, xlog, frame, hooks>>
    \/ (\E t \in Procs : TaskGotId(t)) /\ UNCHANGED <<execVars, xlog, frame, hooks>>
    \/ (\E t \in Procs : ConnectOK(t)) /\ UNCHANGED <<execVars, xlog, frame, hooks>>
    \/ (\E t \in Procs, m \in ListenMessages : RecvText(t, m, 0)) /\ UNCHANGED <<execVars, xlog, frame, hooks>>
    \/ (\E t \in Procs : RecvClosed(t)) /\ UNCHANGED <<execVars, xlog, frame, hooks>>
    \/ (\E t \in Procs : TaskClosed(t)) /\ UNCHANGED <<execVars, xlog, frame, hooks>>
    \/ (SyncTM(0)) /\ UNCHANGED <<execVars, xlog, frame, hooks>>

SpecListen == InitSync /\ [][NextListen]_vars

\* the frame runs: one start(), a server that never fails, no listener, and
\* state frames whose "capability" takes every shape the code tells apart. The
\* values of the keys are tokens, one per key: 1 for id, 2 for name, 3 for
\* text, 4 for progress, 5 for reference_capability_id.
FrameDevices == {1}
FrameTags == {"none", FirstTag}
RawSubs ==
    { s \in [id : {0, 1}, name : {0, 2}, text : {0, 3}, progress : {0, 4}, junk : {0, 1}] :
        \/ s = NoSub
        \/ s.id + s.name + s.text + s.progress \in {1, 2, 3, 4} /\ s.junk = 0
        \/ s.id + s.name + s.text + s.progress = 10 /\ s.junk = 1 }
RawCaps ==
    { [shape |-> sh, st |-> NoSub, ref |-> 0, junk |-> 0] : sh \in {"absent", "empty"} }
    \cup { [shape |-> "dict", st |-> x, ref |-> r, junk |-> j] :
             x \in RawSubs, r \in {0, 5}, j \in {0, 1} }
FrameMessages ==
    { m \in Messages : m.kind \in {"nonjson", "forbidden", "nodev"} }
    \cup { [kind |-> "state", dev |-> d, state |-> st, cap |-> c, junk |-> j] :
             d \in FrameDevices, st \in FrameTags, c \in RawCaps, j \in {0, 1} }

\* the frame a step handles is recorded; any other step clears the record
FrameText(t, m) == RecvText(t, m, 0) /\ frame' = m
NoFrameStep == frame' = NoFrame

NextFrames ==
    \/ (Start) /\ NoFrameStep /\ UNCHANGED <<execVars, xlog, hooks>>
    \/ (\E t \in Procs : TaskRun(t)) /\ NoFrameStep /\ UNCHANGED <<execVars, xlog, hooks>>
    \/ (\E t \in Procs : TaskLoginDone(t)) /\ NoFrameStep /\ UNCHANGED <<execVars, xlog, hooks>>
    \/ (\E t \in Procs : TaskGotId(t)) /\ NoFrameStep /\ UNCHANGED <<execVars, xlog, hooks>>
    \/ (\E t \in Procs : ConnectOK(t)) /\ NoFrameStep /\ UNCHANGED <<execVars, xlog, hooks>>
    \/ (\E t \in Procs, m \in FrameMessages : FrameText(t, m)) /\ UNCHANGED <<execVars, xlog, hooks>>
    \/ (\E t \in Procs : RecvClosed(t)) /\ NoFrameStep /\ UNCHANGED <<execVars, xlog, hooks>>
    \/ (\E t \in Procs : TaskClosed(t)) /\ NoFrameStep /\ UNCHANGED <<execVars, xlog, hooks>>
    \/ (SyncTM(0)) /\ NoFrameStep /\ UNCHANGED <<execVars, xlog, hooks>>

SpecFrames == InitSync /\ [][NextFrames]_vars

\* the order runs: one start(), a server that never fails, listeners, frames
\* that are dropped, and state frames of every device with and without a
\* capability
FullCap == [shape |-> "dict", st |-> [id |-> 1, name |-> 2, text |-> 3, progress |-> 4, junk |-> 1],
            ref |-> 5, junk |-> 1]
OrderMessages ==
    { m \in Messages : m.kind \in {"nonjson", "forbidden", "nodev"} }
    \cup { [kind |-> "state", dev |-> d, state |-> st, cap |-> c, junk |-> 0] :
             d \in Devices, st \in StateTags, c \in {AbsentCap, FullCap} }

NextOrder ==
    \/ (Start) /\ NoFrameStep /\ UNCHANGED <<execVars, xlog, hooks>>
    \/ (\E d \in Devices, cb \in Cbs : regs[d][cb] = 0 /\ AddListener(d, cb)) /\ NoFrameStep /\ UNCHANGED <<execVars, xlog, hooks>>
    \/ (\E d \in Devices, cb \in Cbs : Unsubscribe(d, cb)) /\ NoFrameStep /\ UNCHANGED <<execVars, xlog, hooks>>
    \/ (\E t \in Procs : TaskRun(t)) /\ NoFrameStep /\ UNCHANGED <<execVars, xlog, hooks>>
    \/ (\E t \in Procs : TaskLoginDone(t)) /\ NoFrameStep /\ UNCHANGED <<execVars, xlog, hooks>>
    \/ (\E t \in Procs : TaskGotId(t)) /\ NoFrameStep /\ UNCHANGED <<execVars, xlog, hooks>>
    \/ (\E t \in Procs : ConnectOK(t)) /\ NoFrameStep /\ UNCHANGED <<execVars, xlog, hooks>>
    \/ (\E t \in Procs, m \in OrderMessages : FrameText(t, m)) /\ UNCHANGED <<execVars, xlog, hooks>>
    \/ (\E t \in Procs : RecvClosed(t)) /\ NoFrameStep /\ UNCHANGED <<execVars, xlog, hooks>>
    \/ (\E t \in Procs : TaskClosed(t)) /\ NoFrameStep /\ UNCHANGED <<execVars, xlog, hooks>>
    \/ (SyncTM(0)) /\ NoFrameStep /\ UNCHANGED <<execVars, xlog, hooks>>

SpecOrder == InitSync /\ [][NextOrder]_vars

\* a callback begins or ceases to call the closure _remove of another
\* callback's registration when it is invoked
SetHook(c, h) ==
    /\ hooks[c] # h
    /\ hooks' = [hooks EXCEPT ![c] = h]
    /\ NoDelivery
    /\ lastEv' = "other"
    /\ UNCHANGED <<listeners, states, avail, regs, handle, stopFlag, task, spc, sAwait, stopDone, tmVars>>

\* the hook runs: one start(), a server that never fails, state frames of
\* every device, and callbacks that unsubscribe one another while they are
\* invoked and that raise an Exception or not; a callback is registered once
\* per device at a time
HookMessages == { m \in Messages : m.kind = "state" /\ m.state = FirstTag }

NextHooks ==
    \/ (Start) /\ UNCHANGED <<execVars, xlog, frame, hooks>>
    \/ (\E d \in Devices, cb \in Cbs : regs[d][cb] = 0 /\ AddListener(d, cb)) /\ UNCHANGED <<execVars, xlog, frame, hooks>>
    \/ (\E d \in Devices, cb \in Cbs : Unsubscribe(d, cb)) /\ UNCHANGED <<execVars, xlog, frame, hooks>>
    \/ (\E c \in Cbs : \E h \in (Cbs \cup {0}) \ {c} : SetHook(c, h)) /\ UNCHANGED <<execVars, xlog, frame>>
    \/ (\E cb \in Cbs : Toggle(cb)) /\ UNCHANGED <<execVars, xlog, frame, hooks>>
    \/ (\E t \in Procs : TaskRun(t)) /\ UNCHANGED <<execVars, xlog, frame, hooks>>
    \/ (\E t \in Procs : TaskLoginDone(t)) /\ UNCHANGED <<execVars, xlog, frame, hooks>>
    \/ (\E t \in Procs : TaskGotId(t)) /\ UNCHANGED <<execVars, xlog, frame, hooks>>
    \/ (\E t \in Procs : ConnectOK(t)) /\ UNCHANGED <<execVars, xlog, frame, hooks>>
    \/ (\E t \in Procs, m \in HookMessages : RecvText(t, m, 0)) /\ UNCHANGED <<execVars, xlog, frame, hooks>>
    \/ (\E t \in Procs : RecvClosed(t)) /\ UNCHANGED <<execVars, xlog, frame, hooks>>
    \/ (\E t \in Procs : TaskClosed(t)) /\ UNCHANGED <<execVars, xlog, frame, hooks>>
    \/ (SyncTM(0)) /\ UNCHANGED <<execVars, xlog, frame, hooks>>

SpecHooks == InitSync /\ [][NextHooks]_vars

\* the text-frame runs: one start(), listeners, and text frames of every kind,
\* a JSON value that is not an object among them; each frame handled is
\* recorded
TextMessages == { m \in Messages : m.kind # "state" \/ m.state = FirstTag }
TextFrame(t, m) == RecvText(t, m, TextFails) /\ frame' = m

NextText ==
    \/ (Start) /\ NoFrameStep /\ UNCHANGED <<execVars, xlog, hooks>>
    \/ (\E d \in Devices, cb \in Cbs : regs[d][cb] = 0 /\ AddListener(d, cb)) /\ NoFrameStep /\ UNCHANGED <<execVars, xlog, hooks>>
    \/ (\E t \in Procs : TaskRun(t)) /\ NoFrameStep /\ UNCHANGED <<execVars, xlog, hooks>>
    \/ (\E t \in Procs : TaskLoginDone(t)) /\ NoFrameStep /\ UNCHANGED <<execVars, xlog, hooks>>
    \/ (\E t \in Procs : TaskGotId(t)) /\ NoFrameStep /\ UNCHANGED <<execVars, xlog, hooks>>
    \/ (\E t \in Procs : ConnectOK(t)) /\ NoFrameStep /\ UNCHANGED <<execVars, xlog, hooks>>
    \/ (\E t \in Procs, m \in TextMessages : TextFrame(t, m)) /\ UNCHANGED <<execVars, xlog, hooks>>
    \/ (\E t \in Procs : RecvClosed(t)) /\ NoFrameStep /\ UNCHANGED <<execVars, xlog, hooks>>
    \/ (\E t \in Procs : TaskClosed(t)) /\ NoFrameStep /\ UNCHANGED <<execVars, xlog, hooks>>
    \/ (\E t \in Procs : Wake(t)) /\ NoFrameStep /\ UNCHANGED <<execVars, xlog, hooks>>
    \/ (SyncTM(0)) /\ NoFrameStep /\ UNCHANGED <<execVars, xlog, hooks>>

SpecText == InitSync /\ [][NextText]_vars

\* a callback begins to raise, whenever it is invoked, an exception that does
\* not derive from Exception
SetFatal(c, k) ==
    /\ fatal[c] = "none"
    /\ fatal' = [fatal EXCEPT ![c] = k]
    /\ fired' = NoFired
    /\ sent' = NoSent
    /\ lastEv' = "other"
    /\ UNCHANGED <<broken, order, listeners, states, avail, regs, handle, stopFlag, task, spc, sAwait,
                   stopDone, tmVars>>

\* the escape runs: one start(), a connection that may fail to open, state
\* frames of every device, each recorded, and callbacks whose exception no
\* "except Exception" catches; a callback is registered once per device
EscapeMessages == { m \in Messages : m.kind = "state" /\ m.state = FirstTag }
EscapeFrame(t, m) == RecvText(t, m, 0) /\ frame' = m

NextEscape ==
    \/ (Start) /\ NoFrameStep /\ UNCHANGED <<execVars, xlog, hooks>>
    \/ (\E d \in Devices, cb \in Cbs : regs[d][cb] = 0 /\ AddListener(d, cb)) /\ NoFrameStep /\ UNCHANGED <<execVars, xlog, hooks>>
    \/ (\E c \in Cbs, k \in RaiseKinds : SetFatal(c, k)) /\ NoFrameStep /\ UNCHANGED <<execVars, xlog, hooks>>
    \/ (\E t \in Procs : TaskRun(t)) /\ NoFrameStep /\ UNCHANGED <<execVars, xlog, hooks>>
    \/ (\E t \in Procs : TaskLoginDone(t)) /\ NoFrameStep /\ UNCHANGED <<execVars, xlog, hooks>>
    \/ (\E t \in Procs : TaskGotId(t)) /\ NoFrameStep /\ UNCHANGED <<execVars, xlog, hooks>>
    \/ (\E t \in Procs : ConnectOK(t)) /\ NoFrameStep /\ UNCHANGED <<execVars, xlog, hooks>>
    \/ (\E t \in Procs : ConnectFail(t, EscapeFails)) /\ NoFrameStep /\ UNCHANGED <<execVars, xlog, hooks>>
    \/ (\E t \in Procs, m \in EscapeMessages : EscapeFrame(t, m)) /\ UNCHANGED <<execVars, xlog, hooks>>
    \/ (\E t \in Procs : RecvClosed(t)) /\ NoFrameStep /\ UNCHANGED <<execVars, xlog, hooks>>
    \/ (\E t \in Procs : TaskClosed(t)) /\ NoFrameStep /\ UNCHANGED <<execVars, xlog, hooks>>
    \/ (\E t \in Procs : Wake(t)) /\ NoFrameStep /\ UNCHANGED <<execVars, xlog, hooks>>
    \/ (SyncTM(0)) /\ NoFrameStep /\ UNCHANGED <<execVars, xlog, hooks>>

SpecEscape == InitSync /\ [][NextEscape]_vars

\* asyncio.sleep(backoff) of line 350 returns after a finite time and the event
\* loop resumes the task
FairEscape == WF_vars(\E t \in Procs : Wake(t) /\ NoFrameStep /\ UNCHANGED <<execVars, xlog, hooks>>)

SpecEscapeLive == InitSync /\ [][NextEscape]_vars /\ FairEscape

\* the start/stop runs are made with one device, one callback and one state tag
SyncDevices == {1}
SyncCbs == {1}
SyncMessages == { m \in Messages : m.dev \in SyncDevices \cup {0} /\ m.state \in {"none", FirstTag} }

\* start() and stop() in any interleaving with the task's steps
NextSync ==
    \/ (Start) /\ UNCHANGED <<execVars, xlog, frame, hooks>>
    \/ (StopCall) /\ UNCHANGED <<execVars, xlog, frame, hooks>>
    \/ (StopResume) /\ UNCHANGED <<execVars, xlog, frame, hooks>>
    \/ (\E d \in SyncDevices, cb \in SyncCbs : regs[d][cb] = 0 /\ AddListener(d, cb)) /\ UNCHANGED <<execVars, xlog, frame, hooks>>
    \/ (\E d \in SyncDevices, cb \in SyncCbs : Unsubscribe(d, cb)) /\ UNCHANGED <<execVars, xlog, frame, hooks>>
    \/ (\E t \in Procs : TaskRun(t)) /\ UNCHANGED <<execVars, xlog, frame, hooks>>
    \/ (\E t \in Procs : TaskLoginDone(t)) /\ UNCHANGED <<execVars, xlog, frame, hooks>>
    \/ (\E t \in Procs : TaskGotId(t)) /\ UNCHANGED <<execVars, xlog, frame, hooks>>
    \/ (\E t \in Procs : ConnectOK(t)) /\ UNCHANGED <<execVars, xlog, frame, hooks>>
    \/ (\E t \in Procs : ConnectFail(t, SyncFails)) /\ UNCHANGED <<execVars, xlog, frame, hooks>>
    \/ (\E t \in Procs, m \in SyncMessages : RecvText(t, m, SyncFails)) /\ UNCHANGED <<execVars, xlog, frame, hooks>>
    \/ (\E t \in Procs : RecvError(t, SyncFails)) /\ UNCHANGED <<execVars, xlog, frame, hooks>>
    \/ (\E t \in Procs : RecvClosed(t)) /\ UNCHANGED <<execVars, xlog, frame, hooks>>
    \/ (\E t \in Procs : TaskClosed(t)) /\ UNCHANGED <<execVars, xlog, frame, hooks>>
    \/ (\E t \in Procs : Wake(t)) /\ UNCHANGED <<execVars, xlog, frame, hooks>>
    \/ (\E t \in Procs : TaskCancelled(t)) /\ UNCHANGED <<execVars, xlog, frame, hooks>>
    \/ (SyncTM(SyncFails)) /\ UNCHANGED <<execVars, xlog, frame, hooks>>

SpecSync == InitSync /\ [][NextSync]_vars

(* --------------------------- claims: C2 .. C5 -------------------------- *)
\* the statuses the claims name
SuccessStatuses == {200, 201, 202, 204}
AuthStatuses == {401, 403}

NumReq(op) == Cardinality({ i \in DOMAIN reqs : reqs[i] = op })
AccessPosts == { i \in DOMAIN posts : posts[i][1] = "access" }
\* the first POST sent with the access token
FirstAccess == CHOOSE i \in AccessPosts : \A j \in AccessPosts : i <= j

\* C2 as stated: execute raises its final RuntimeError only if no POST it
\* issued received a success status (the outcome of the last retry is surfaced).
C2_FinalRetrySurfaced ==
    (epc = "raised" /\ eerr = "RuntimeError")
        => \A i \in DOMAIN posts : posts[i][2] \notin SuccessStatuses

\* C3 as stated: login() is forced only after the identity-token POST and then
\* the access-token POST both returned 401/403.
C3_LoginOnlyAfterBothFail ==
    NumReq("login") >= 1
        => /\ Len(posts) >= 2
           /\ posts[1][1] = "id" /\ posts[1][2] \in AuthStatuses
           /\ posts[2][1] = "access" /\ posts[2][2] \in AuthStatuses

\* C3 as amended: login() is forced exactly once when the first access-token
\* POST returned 401/403 and never otherwise; that POST is the first POST of
\* the call (no identity token was available) or follows an identity-token
\* POST that returned 401/403. After the login at most one identity-token POST
\* and then one access-token POST are issued, an auth-class answer to that
\* last POST ends the call with an error, and execute never issues more than
\* four POSTs or forces more than one login.
C3_OneForcedLogin ==
    /\ NumReq("login") <= 1
    /\ Len(posts) <= 4
    /\ NumReq("login") = 1 <=> (AccessPosts # {} /\ posts[FirstAccess][2] \in AuthStatuses)
    /\ AccessPosts # {} =>
          /\ FirstAccess <= 2
          /\ FirstAccess = 2 => (posts[1][1] = "id" /\ posts[1][2] \in AuthStatuses)
          /\ Len(posts) <= FirstAccess + 2
          /\ Len(posts) = FirstAccess + 2 =>
                (posts[FirstAccess + 1][1] = "id" /\ posts[FirstAccess + 2][1] = "access")
          /\ \A i \in AccessPosts :
                (i > FirstAccess /\ posts[i][2] \in AuthStatuses)
                    => (epc = "raised" /\ eerr = "RuntimeError" /\ i = Len(posts))

\* both attempts and both retries were rejected: one login, four POSTs, an error
C3_Witness ==
    /\ epc = "raised"
    /\ NumReq("login") = 1
    /\ Len(posts) = 4
    /\ \A i \in DOMAIN posts : posts[i][2] \in AuthStatuses

\* C4: when the first POST is sent with the identity token and returns a
\* success status, execute has returned with that single POST, never asked the
\* token manager for the access token and never called login().
C4_IdSuccessReturnsAtOnce ==
    (Len(posts) >= 1 /\ posts[1][1] = "id" /\ posts[1][2] \in SuccessStatuses)
        => /\ epc = "returned"
           /\ Len(posts) = 1
           /\ reqs = <<"get_id_token">>

C4_Witness ==
    /\ posts = << <<"id", 204>> >>
    /\ epc = "returned"

\* C5: when the first POST returns a status that is neither a success status
\* nor 401/403, execute has raised with that single POST: no other token kind
\* was requested, no login() forced.
C5_OtherStatusRaisesAtOnce ==
    (Len(posts) >= 1 /\ posts[1][2] \notin (SuccessStatuses \cup AuthStatuses))
        => /\ epc = "raised" /\ eerr = "RuntimeError"
           /\ Len(posts) = 1
           /\ NumReq("login") = 0
           /\ reqs = IF posts[1][1] = "id" THEN <<"get_id_token">>
                      ELSE <<"get_id_token", "get_access_token">>

C5_Witness ==
    /\ posts = << <<"id", 404>> >>
    /\ epc = "raised"

(* --------------------------- claims: C6 .. C10 ------------------------- *)
RECURSIVE Pow2(_)
Pow2(n) == IF n = 0 THEN 1 ELSE 2 * Pow2(n - 1)

Known == { d \in Devices : avail[d] # "absent" }

\* C6, as stated: whenever an established connection has just ended, by a clean
\* close or by an error, every device seen before is unavailable and each of
\* its listeners was invoked exactly once by that step
C6_DisconnectMarksUnavailable ==
    lastEv \in {"closed_clean", "closed_error"} =>
        \A d \in Known :
            /\ avail[d] = "false"
            /\ \A cb \in listeners[d] : fired[d][cb] = 1

\* C7, as stated: stop() never lets the cancellation's exception through, and
\* when it ends the task handle is cleared
C7_StopReturnsCleared ==
    /\ lastEv # "stop_raised"
    /\ lastEv = "stop_returned" => handle = 0

\* C8, as stated: after stop() has returned and before the next start(), no
\* step of a background task invokes a listener
C8_NoDispatchAfterStop ==
    stopDone => ~(lastEv \in {"message", "closed_clean"} /\ fired # NoFired)

\* C9: a task asleep after its N-th failure in a row (N counts the attempts
\* that ended with an exception since the task began or since the last clean
\* close) sleeps min(2^(N-1), 30), and the backoff stays within 1..30
C9_BackoffSequence ==
    \A t \in Procs :
        /\ task[t].backoff \in InitialBackoff..MaxBackoff
        /\ task[t].pc = "sleeping" =>
              /\ task[t].fails >= 1
              /\ task[t].sleep = Min(Pow2(task[t].fails - 1), MaxBackoff)

\* the ceiling has cut the doubling: 2^(N-1) is above 30
C9_Witness ==
    \E t \in Procs :
        /\ task[t].pc = "sleeping"
        /\ Pow2(task[t].fails - 1) > MaxBackoff
        /\ task[t].sleep = MaxBackoff

\* C10, as stated: the failure that follows a connection which was open and
\* received frames sleeps 1, whatever the failures before that connection
C10_RanThenSleepsOne ==
    \A t \in Procs :
        task[t].pc = "sleeping" /\ task[t].ran => task[t].sleep = InitialBackoff

\* C10, amended: the failure that follows a connection which the server closed
\* cleanly sleeps 1, whatever the backoff had grown to before that connection
C10_CleanCloseThenSleepsOne ==
    \A t \in Procs :
        task[t].pc = "sleeping" /\ task[t].cleanFrom # 0 => task[t].sleep = InitialBackoff

\* asleep after the first failure that follows a clean close, the backoff had
\* been raised above 1 by the failures before that connection
C10_Witness ==
    \E t \in Procs :
        /\ task[t].pc = "sleeping"
        /\ task[t].cleanFrom > InitialBackoff
        /\ task[t].sleep = InitialBackoff

(* --------------------------- claims: C11 .. C20 ------------------------ *)
\* C11, as stated: with no stop(), no error ends the reconnect loop, and a task
\* that has failed (it sleeps in its backoff) always goes on to a next attempt,
\* which begins with the login of _pump
C11_ErrorsAreRetried ==
    /\ [](\A t \in Procs : task[t].pc \notin {"done", "cancelled"})
    /\ \A t \in Procs : (task[t].pc = "sleeping") ~> (task[t].pc = "login")

\* C12: a step that registers cb for d (add_listener) calls cb once with the
\* snapshot stored for d, and nothing else, when one is stored, with no frame
\* handled in that step; it calls nothing when none is stored
C12_RegistrationDeliversSnapshot ==
    [][\A d \in Devices, cb \in Cbs :
         regs'[d][cb] = regs[d][cb] + 1 =>
            /\ states' = states
            /\ IF states[d] # NoState
               THEN /\ fired' = [NoFired EXCEPT ![d][cb] = 1]
                    /\ sent' = [NoSent EXCEPT ![d] = states[d]]
               ELSE fired' = NoFired /\ sent' = NoSent]_vars

\* a registration has just delivered the snapshot of the device's second state
\* frame to the new callback, while another callback was already registered
C12_Witness ==
    /\ lastEv = "add_listener"
    /\ \E d \in Devices, cb \in Cbs :
         /\ fired = [NoFired EXCEPT ![d][cb] = 1]
         /\ sent[d] = states[d]
         /\ states[d].device_state # FirstTag
         /\ listeners[d] # {cb}

\* C13, as stated: whatever its callbacks raise, the step that handles a state
\* frame for a device invokes every listener of that device once and leaves
\* the task connected; the step in which a connection ends invokes every
\* listener of every device seen once, and the loop goes on to its next
\* attempt; and a callback invoked by a registration is registered
C13_RaisingCallbackIsSkipped ==
    [][/\ frame'.kind = "state" =>
            /\ \A cb \in listeners[frame'.dev] : fired'[frame'.dev][cb] = 1
            /\ \A t \in Procs : task[t].pc = "connected" => task'[t].pc = "connected"
       /\ frame' = NoFrame /\ fired' # NoFired /\ task' # task =>
            /\ \A d \in Known : \A cb \in listeners[d] : fired'[d][cb] = 1
            /\ \A t \in Procs : task'[t] # task[t] => task'[t].pc = "login" /\ task'[t].fails = 0
       /\ \A d \in Devices, cb \in Cbs :
            fired'[d][cb] # 0 /\ frame' = NoFrame /\ task' = task => cb \in listeners'[d]
    ]_vars

\* C14, as stated: a registration that was not unsubscribed keeps receiving
\* dispatches, so as long as an unsubscribe function handed out for (d, cb) was
\* not called, cb is among the callbacks called for d
C14_UnsubscribeRemovesOnlyItsOwn ==
    \A d \in Devices, cb \in Cbs : regs[d][cb] > 0 => cb \in listeners[d]

\* what the claims call a successful exchange: HTTP 200 and a body from which
\* the credential set could be built
Accepted(r) == r.status = 200 /\ r.body = "ok" /\ r.exp # "bad"
Lifetime(r) == IF r.exp = "absent" THEN 3600 ELSE r.expires_in

\* the credential set as the i-th exchange of the logged call left it
After(i) == IF i = Len(xlog.seq) THEN tm ELSE xlog.seq[i + 1].before

\* C15: a successful refresh whose reply has no refresh token keeps the stored
\* refresh token and replaces access token, identity token and expiry by the
\* reply's
C15_RefreshKeepsRefreshToken ==
    \A i \in 1..Len(xlog.seq) :
        LET e == xlog.seq[i] IN
        e.kind = "refresh" /\ Accepted(e.r) /\ e.r.refresh = NoToken =>
            /\ After(i).refresh = e.before.refresh
            /\ After(i).access = e.r.access
            /\ After(i).idt = e.r.idt
            /\ After(i).expires_at = e.at + Lifetime(e.r)

\* such a refresh was made: the refresh token is the old one, the access token
\* a new one
C15_Witness ==
    /\ Len(xlog.seq) = 1
    /\ LET e == xlog.seq[1] IN
       /\ e.kind = "refresh" /\ Accepted(e.r) /\ e.r.refresh = NoToken
       /\ tm.refresh = e.before.refresh /\ tm.refresh # NoToken
       /\ tm.access # e.before.access /\ tm.access # NoToken

\* the logged call found a token that was fresh by the 90-second margin
FoundFresh == xlog.tm.access # NoToken /\ xlog.at < xlog.tm.expires_at - 90
LastExchange == xlog.seq[Len(xlog.seq)]

\* a get_access_token call that returned gave a token: the cached one, fresh
\* when checked, or the one of an exchange it made itself
ReturnedTokenIsValid ==
    call[Caller].op = "get_access_token" /\ call[Caller].pc = "returned" =>
        /\ call[Caller].res # NoToken
        /\ IF xlog.seq = <<>>
           THEN FoundFresh /\ call[Caller].res = xlog.tm.access
           ELSE Accepted(LastExchange.r) /\ call[Caller].res = LastExchange.r.access

\* C16, as stated: get_access_token returns only a token that was fresh when
\* checked or that it obtained itself, and otherwise fails with an auth error
C16_FreshTokenOrAuthError ==
    /\ ReturnedTokenIsValid
    /\ call[Caller].op = "get_access_token" /\ call[Caller].pc = "raised" =>
          call[Caller].err = "CognitoAuthError"

\* C16, amended: ... and otherwise fails, with an auth error unless the login
\* request got no HTTP reply at all, whose transport error is then raised as is
C16_FreshTokenOrError ==
    /\ ReturnedTokenIsValid
    /\ call[Caller].op = "get_access_token" /\ call[Caller].pc = "raised" =>
          /\ xlog.seq # <<>>
          /\ call[Caller].err =
                IF LastExchange.kind = "login" /\ LastExchange.r.status = 0
                THEN "ClientError" ELSE "CognitoAuthError"

\* the token returned is the one of the login that followed a failed refresh
C16_Witness ==
    /\ call[Caller].op = "get_access_token" /\ call[Caller].pc = "returned"
    /\ Len(xlog.seq) = 2
    /\ ~Accepted(xlog.seq[1].r)
    /\ call[Caller].res = xlog.seq[2].r.access

\* C17: a getter that finds an access token stored and now < expires_at - 90
\* makes no exchange, returns at once and leaves the credential set as it was
C17_FreshMeansNoExchange ==
    xlog.by = Caller /\ xlog.op \in Getters /\ FoundFresh =>
        /\ xlog.seq = <<>>
        /\ call[Caller].pc = "returned" /\ call[Caller].nexch = 0
        /\ tm = xlog.tm

\* a getter has returned the token it found fresh
C17_Witness ==
    /\ xlog.by = Caller /\ xlog.op \in Getters /\ FoundFresh
    /\ call[Caller].pc = "returned" /\ call[Caller].res # NoToken
    /\ tm = xlog.tm

Kinds == [i \in 1..Len(xlog.seq) |-> xlog.seq[i].kind]
CallFinished == call[Caller].pc \in {"returned", "raised"}

\* C18: a getter that finds the token stale or absent refreshes first exactly
\* when a refresh token is stored; it logs in only with no refresh token
\* stored or after a refresh that failed, which does not end the call; a
\* refresh that succeeded ends the exchanges of the call
C18_RefreshFirstThenLogin ==
    xlog.by = Caller /\ xlog.op \in Getters /\ ~FoundFresh =>
        IF xlog.tm.refresh # NoToken
        THEN CASE Kinds = <<>> -> call[Caller].pc = "refreshing"
               [] Kinds = <<"refresh">> ->
                    IF Accepted(xlog.seq[1].r)
                    THEN CallFinished
                    ELSE call[Caller].pc = "logging_in"
               [] Kinds = <<"refresh", "login">> ->
                    ~Accepted(xlog.seq[1].r) /\ CallFinished
               [] OTHER -> FALSE
        ELSE CASE Kinds = <<>> -> call[Caller].pc = "logging_in"
               [] Kinds = <<"login">> -> CallFinished
               [] OTHER -> FALSE

\* a getter returned after a refresh that failed and a login that succeeded
C18_Witness ==
    /\ xlog.by = Caller /\ xlog.op \in Getters /\ ~FoundFresh
    /\ Kinds = <<"refresh", "login">>
    /\ ~Accepted(xlog.seq[1].r) /\ Accepted(xlog.seq[2].r)
    /\ call[Caller].pc = "returned"

\* C19: login() makes one login exchange and no other, whatever the cached
\* token and the stored refresh token; it returns when the exchange succeeded
\* and raises the exchange's error when it failed
C19_LoginIsOneLoginExchange ==
    xlog.by = Caller /\ xlog.op = "login" =>
        CASE Kinds = <<>> -> call[Caller].pc = "logging_in"
          [] Kinds = <<"login">> ->
               IF Accepted(xlog.seq[1].r)
               THEN call[Caller].pc = "returned"
               ELSE call[Caller].pc = "raised" /\ call[Caller].err # "none"
          [] OTHER -> FALSE

\* login() was called with a fresh token cached and a refresh token stored,
\* its one login exchange failed and the call raised
C19_Witness ==
    /\ xlog.by = Caller /\ xlog.op = "login"
    /\ FoundFresh /\ xlog.tm.refresh # NoToken
    /\ Kinds = <<"login">>
    /\ call[Caller].pc = "raised"

\* C20, as stated: an exchange answered 200 with a body that is not JSON, that
\* has no AuthenticationResult or that has no AccessToken fails: the login
\* raises an auth error, the refresh is followed by the login
C20_MalformedReplyFails ==
    \A i \in 1..Len(xlog.seq) :
        LET e == xlog.seq[i] IN
        e.r.status = 200 /\ (e.r.body # "ok" \/ e.r.access = NoToken) =>
            IF e.kind = "login"
            THEN call[Caller].pc = "raised" /\ call[Caller].err = "CognitoAuthError"
            ELSE i < Len(xlog.seq) \/ call[Caller].pc = "logging_in"

(* --------------------------- claims: C21 .. C30 ------------------------ *)
\* a device is observed once a state frame for it was accepted: its snapshot
\* and its flag are stored together (lines 418-419) and never removed
Observed == { d \in Devices : states[d] # NoState }

\* C21, as stated: is_available(d) is the stored flag of d whenever d has one,
\* which is the case exactly for the observed devices; for a device that was
\* never observed it is true if and only if a background task exists and has
\* not finished
C21_IsAvailable ==
    \A d \in Devices :
        /\ d \in Observed <=> avail[d] # "absent"
        /\ avail[d] # "absent" => (IsAvailable(d) <=> avail[d] = "true")
        /\ avail[d] = "absent" => (IsAvailable(d) <=> \E t \in Procs : Alive(t))

\* the fields of an event the snapshot is made of: the state tag, the
\* capability object being there or not, and the five values of the capability,
\* each of them None when the event does not hold it
CapFields == {"id", "name", "text", "progress", "reference_capability_id"}
HasCap(m) == m.cap.shape = "dict"
CarriesCap(m) == m.cap.shape # "absent"
Agree(m, n) ==
    /\ m.state = n.state
    /\ CarriesCap(m) <=> CarriesCap(n)
    /\ m.cap.st.id = n.cap.st.id /\ m.cap.st.name = n.cap.st.name
    /\ m.cap.st.text = n.cap.st.text /\ m.cap.st.progress = n.cap.st.progress
    /\ m.cap.ref = n.cap.ref

\* C22, as stated: when a state frame has just been handled, get_state of its
\* device has exactly the keys device_state and capability; device_state is the
\* event's tag; capability is None or has exactly the five keys with the
\* event's values; and any event that agrees with the handled one on the tag,
\* on carrying a capability object and on the five values gives the same
\* snapshot, whatever other keys the event, its capability and the capability's
\* state hold
C22_SnapshotIsNormalForm ==
    frame.kind = "state" =>
        LET s == GetState(frame.dev) IN
        /\ DOMAIN s = {"device_state", "capability"}
        /\ s.device_state = frame.state
        /\ \/ s.capability = NoCapability
           \/ /\ DOMAIN s.capability = CapFields
              /\ s.capability.id = frame.cap.st.id
              /\ s.capability.name = frame.cap.st.name
              /\ s.capability.text = frame.cap.st.text
              /\ s.capability.progress = frame.cap.st.progress
              /\ s.capability.reference_capability_id = frame.cap.ref
        /\ \A m \in FrameMessages :
              m.kind = "state" /\ Agree(m, frame) => Snapshot(m) = s

\* C23, as stated: under any interleaving of start() and stop(), at most one
\* background task is alive and a live task is the one the task handle holds
C23_OneTaskHeldByHandle ==
    /\ Cardinality({ t \in Procs : Alive(t) }) <= 1
    /\ \A t \in Procs : Alive(t) => handle = t

\* C24, as stated: an observed device has its flag true only while a push
\* connection is open
C24_AvailableOnlyWhileConnected ==
    \A d \in Known :
        avail[d] = "true" => \E t \in Procs : task[t].pc = "connected"

\* C25: a task starts to open a connection only when its get_id_token call has
\* returned an identity token, it makes that call only when its login call has
\* returned after a login exchange, and a connection is open only after it was
\* being opened; when the login call raises, or get_id_token raises or returns
\* no token, the task goes from there into its backoff sleep
C25_LoginThenTokenThenConnect ==
    [][\A t \in Procs :
          /\ task'[t].pc = "connecting" /\ task[t].pc # "connecting" =>
                /\ task[t].pc = "getid"
                /\ call[t].op = "get_id_token" /\ call[t].pc = "returned"
                /\ call[t].res # NoToken /\ call[t].res = tm.idt
          /\ task'[t].pc = "getid" /\ task[t].pc # "getid" =>
                /\ task[t].pc = "login"
                /\ call[t].op = "login" /\ call[t].pc = "returned" /\ call[t].nexch >= 1
          /\ task'[t].pc = "connected" /\ task[t].pc # "connected" =>
                task[t].pc = "connecting"
          /\ /\ \/ task[t].pc = "login" /\ call[t].pc = "raised"
                \/ task[t].pc = "getid" /\ call[t].pc = "raised"
                \/ task[t].pc = "getid" /\ call[t].pc = "returned" /\ call[t].res = NoToken
             /\ task'[t] # task[t]
             => task'[t].pc = "sleeping" /\ task'[t].sleep = task[t].backoff
    ]_vars

\* the last login gave an access token and no identity token, and the task
\* sleeps in its backoff: the attempt ended before any connection was opened
C25_Witness ==
    \E t \in Procs :
        /\ task[t].pc = "sleeping" /\ task[t].fails = 1 /\ ~task[t].ran
        /\ tm.access # NoToken /\ tm.idt = NoToken

\* C26, as stated: frames are handled one per step, each to its end before the next. The
\* step that handles an accepted frame for d makes the snapshot of d the one
\* built from that frame alone, leaves the snapshots and flags of the other
\* devices and every listener set as they were, and invokes each listener of d
\* once, with that snapshot, and no listener of another device; no other step
\* changes a snapshot
C26_FramesInArrivalOrder ==
    [][/\ frame'.kind = "state" =>
            LET d == frame'.dev
                new == [device_state |-> frame'.state,
                        capability |-> IF HasCap(frame')
                                       THEN [id |-> frame'.cap.st.id, name |-> frame'.cap.st.name,
                                             text |-> frame'.cap.st.text,
                                             progress |-> frame'.cap.st.progress,
                                             reference_capability_id |-> frame'.cap.ref]
                                       ELSE NoCapability]
            IN  /\ states'[d] = new
                /\ \A e \in Devices \ {d} :
                      /\ states'[e] = states[e] /\ avail'[e] = avail[e]
                      /\ fired'[e] = NoCalls
                /\ listeners' = listeners
                /\ \A cb \in Cbs : fired'[d][cb] = IF cb \in listeners[d] THEN 1 ELSE 0
                /\ listeners[d] # {} => sent'[d] = new
       /\ frame'.kind # "state" => states' = states
    ]_vars

\* C27: the step that handles a frame that is not JSON, that is the Forbidden
\* message or that has no device identifier changes no snapshot and no flag,
\* invokes no listener, and leaves the task connected with its backoff as it
\* was, ready for the next frame
C27_DroppedFrameChangesNothing ==
    [][frame'.kind \in {"nonjson", "forbidden", "nodev"} =>
          /\ states' = states /\ avail' = avail /\ listeners' = listeners
          /\ fired' = NoFired
          /\ \A t \in Procs :
                /\ task'[t].pc = task[t].pc
                /\ task'[t].backoff = task[t].backoff
                /\ task'[t].fails = task[t].fails
          /\ \E t \in Procs : task'[t].pc = "connected"
    ]_vars

\* a frame without device identifier has been dropped while a device is
\* observed, available and listened to
C27_Witness ==
    /\ frame.kind = "nodev"
    /\ \E d \in Observed : avail[d] = "true" /\ listeners[d] # {}
    /\ \E t \in Procs : task[t].pc = "connected" /\ task[t].ran

\* C28, as stated: an exchange that fails with an auth error, by a status
\* other than 200 or by a 200 reply that fails parsing (a body that is not
\* JSON, no AuthenticationResult, an ExpiresIn that is not a number), leaves the
\* four fields of the credential set as they were before it
C28_FailedExchangeKeepsCredentials ==
    \A i \in 1..Len(xlog.seq) :
        LET e == xlog.seq[i] IN
        e.r.status # 0 /\ ~Accepted(e.r) => After(i) = e.before

\* an attempt of task t begins in this step: _pump is entered, and its first
\* await is the login
Begins(t) == task'[t].pc = "login" /\ task[t].pc # "login"
\* an attempt of task t ends in this step, by an exception or by a clean close
EndsFailed(t) ==
    task[t].pc \in {"login", "getid", "connecting", "connected", "closing"} /\ task'[t].pc = "sleeping"
EndsClean(t) == task[t].pc \in {"connected", "closing"} /\ task'[t].pc \in {"login", "done"}

\* C29, as stated: an attempt begins only in a task that was just created or
\* that wakes from a sleep of at least 1: the loop sleeps between the end of
\* any attempt and the beginning of the next
C29_SleepBetweenAttempts ==
    [][\A t \in Procs :
          Begins(t) => \/ task[t].pc = "created"
                       \/ task[t].pc = "sleeping" /\ task[t].sleep >= 1
    ]_vars

\* C29, amended: an attempt that ends with an exception is followed by a sleep
\* of the current backoff, at least 1, before the next attempt begins; an
\* attempt begins in a task just created, in one that wakes from such a
\* sleep, or at once when the server has closed the connection cleanly
C29_SleepAfterFailedAttempt ==
    [][\A t \in Procs :
          /\ EndsFailed(t) => task'[t].sleep = task[t].backoff /\ task'[t].sleep >= 1
          /\ Begins(t) => \/ task[t].pc = "created"
                          \/ task[t].pc = "sleeping" /\ task[t].sleep >= 1
                          \/ EndsClean(t) /\ lastEv' = "closed_clean"
          /\ task[t].pc = "sleeping" /\ task'[t] # task[t] => Begins(t)
    ]_vars

\* a task is in the login of an attempt it began after the sleep that followed
\* two failures in a row
C29_Witness ==
    \E t \in Procs :
        /\ task[t].pc = "login" /\ task[t].fails = 2
        /\ task[t].backoff = 4 /\ task[t].cleanFrom = 0

\* C30, as stated: a callback is invoked only while its registration stands; it
\* is not invoked by a dispatch that begins after its unsubscribe returned,
\* nor by a dispatch in progress in which a callback invoked before it has
\* called its unsubscribe
C30_NoCallAfterUnsubscribe ==
    [][\A d \in Devices, c \in Cbs :
          fired'[d][c] > 0 =>
              /\ c \in listeners[d] \/ regs'[d][c] > regs[d][c]
              /\ ~\E b \in listeners[d] : b < c /\ hooks[b] = c /\ fired'[d][b] > 0
    ]_vars

(* ------------------------------ claim: C31 ----------------------------- *)
\* C31, as stated: the step that handles a text frame, whatever its content,
\* leaves the task connected with its backoff as it was; and a frame that is
\* JSON but no object changes no snapshot and no flag and invokes no listener
C31_NoTextFrameTearsDown ==
    [][/\ frame'.kind # "none" =>
            \A t \in Procs :
                task[t].pc = "connected" =>
                    task'[t].pc = "connected" /\ task'[t].backoff = task[t].backoff
       /\ frame'.kind = "nonobject" =>
            states' = states /\ avail' = avail /\ fired' = NoFired
    ]_vars

====
